---- MODULE Spec2Model ----
(***************************************************************************)
(* Model of the TMF882x time-of-flight sensor driver                       *)
(* (src/src/tmf882x/__init__.py and src/src/tmf882x/measurement.py).       *)
(*                                                                         *)
(* The driver is single-threaded and blocking.  Every step of the model is *)
(* one bus transaction of the driver (or the evaluation of a pure          *)
(* decoder); whatever the device answers on a read is an input chosen with *)
(* \E.  pc is the position of the driver inside the running call, stack    *)
(* holds the positions to return to.                                       *)
(***************************************************************************)
EXTENDS Integers, Sequences, FiniteSets, TLC

(***************************************************************************)
(* Program constants.                                                      *)
(***************************************************************************)
\* range(100) of the polling loops of enable, standby and
\* _send_bootloader_command
RetryCeiling == 100
\* the bound of the first busy status value: `status >= 0x10`
BusyThreshold == 16
\* the mask of from_register: 0xCF
ModeMask == 207
\* registers
RegAppId == 0
RegCommand == 8
RegData == 32
RegPower == 224
RegInterrupt == 225
RegMeasurementPeriod == 36
RegKiloIterations == 38
RegConfidenceThreshold == 48
RegSpadMap == 52
\* values written to the power register by enable and by standby
PowerEnableValue == 33
PowerStandbyValue == 32
\* commands written to register 0x08
CmdLoadConfigPage == 22
CmdWriteConfigPage == 21
CmdMeasure == 16
CmdStop == 255
\* application identity of the bootloader
AppIdBootloader == 128
AppIdApplication == 3
\* marker bytes of the configuration page header
ConfigMarker2 == 188
ConfigMarker3 == 0
\* write 0xFF to 0xE1 clears the interrupts; bit 1 is "measurement ready"
InterruptClear == 255
InterruptReadyBit == 2
\* size of the measurement buffer and of one bus block
MeasurementSize == 132
BlockSize == 32
\* chunk_size of _chunks
ChunkSize == 80
\* bootloader commands and the payload of DOWNLOAD INIT
BlDownloadInit == 20
BlDownloadInitArg == 41
BlSetAddr == 67
BlWriteRam == 65
BlRamremapReset == 17
\* the bootloader status is read as three bytes
BlStatusSize == 3
\* the header of the configuration page is read as four bytes
ConfigHeaderSize == 4

(***************************************************************************)
(* Bounds of the model.                                                    *)
(***************************************************************************)
\* the polls of a loop that has no ceiling in the code are cut off here
MaxStatusPolls == 102
\* the longest buffer handed to from_bytes
MaxBufLen == 133
\* the firmware image is at most two full chunks and this many bytes
MaxFirmwareTail == 1
\* the largest size handed to _block_read called by itself
MaxBlockLen == 133

(***************************************************************************)
(* Inputs: what the device may answer and what the caller may pass.        *)
(***************************************************************************)
\* raw values of the mode register: OFF, STANDBY, ENABLED, STANDBY and
\* ENABLED with the ignored bits 4 and 5 set, and an undefined code
ModeRegValues == {0, 2, 65, 18, 113, 3}
\* values of the application identity register
AppIdValues == {AppIdBootloader, AppIdApplication}
\* values of the status register: every terminal value, and busy values at
\* the threshold, next to it, in the middle and at the top of the range
StatusValues == (0 .. (BusyThreshold - 1)) \cup {BusyThreshold, BusyThreshold + 1, 128, 255}
\* what a read of the status may answer: any byte to the first poll of a
\* command called by itself, the values above to every other poll
StatusAnswers(call, polls) ==
    IF call = "send_command" /\ polls = 0 THEN 0 .. 255 ELSE StatusValues
\* values of the interrupt register
IrqValues == {0, 1, 2, 3, 253, 255}
\* status bytes of the bootloader
BlStatusValues == {0, 1, 255}
\* headers read back after LOAD_CONFIG_PAGE
HeaderValues ==
    {<<a, b, c, d>> : a \in {CmdLoadConfigPage, CmdWriteConfigPage},
                      b \in {0, 7},
                      c \in {ConfigMarker2, 0},
                      d \in {ConfigMarker3, 1}}
\* values of a configuration register, read or written
RegisterValues == {0, 6, 7, 10, 255}
\* the configuration registers, with the width of the access
ConfigRegisters ==
    {RegMeasurementPeriod, RegKiloIterations, RegConfidenceThreshold, RegSpadMap}
\* commands handed to _send_command directly
DirectCommands == {CmdLoadConfigPage, CmdWriteConfigPage, CmdStop}
\* lengths of the firmware image: empty, one byte, around one chunk and
\* around two chunks
FirmwareLens ==
    {0, 1, ChunkSize - 1, ChunkSize, ChunkSize + 1, 2 * ChunkSize,
     2 * ChunkSize + MaxFirmwareTail}
\* contents of a data buffer
Patterns == {"zero", "ramp", "mixed"}
\* the registers a block read starts at
BlockRegisters == {RegData, RegData + ConfigHeaderSize}

(***************************************************************************)
(* Pure helpers.                                                           *)
(***************************************************************************)
Min(a, b) == IF a < b THEN a ELSE b

RECURSIVE BitAnd(_, _)
\* a & b on naturals
BitAnd(a, b) ==
    IF a = 0 \/ b = 0 THEN 0
    ELSE (a % 2) * (b % 2) + 2 * BitAnd(a \div 2, b \div 2)

RECURSIVE BitXor(_, _)
\* a ^ b on naturals
BitXor(a, b) ==
    IF a = 0 THEN b
    ELSE IF b = 0 THEN a
    ELSE ((a + b) % 2) + 2 * BitXor(a \div 2, b \div 2)

RECURSIVE Sum(_)
\* sum(message)
Sum(s) == IF s = <<>> THEN 0 ELSE Head(s) + Sum(Tail(s))

RECURSIVE LittleEndian(_)
\* int.from_bytes(bytes, "little")
LittleEndian(bytes) ==
    IF bytes = <<>> THEN 0 ELSE Head(bytes) + 256 * LittleEndian(Tail(bytes))

\* int.from_bytes(bytes, "little", signed=True) of at most one byte
SignedByte(bytes) ==
    IF bytes = <<>> THEN 0
    ELSE IF bytes[1] >= 128 THEN bytes[1] - 256 ELSE bytes[1]

\* data[a:b] of a Python list: never raises, is cut at the end of the list
Slice(data, a, b) == SubSeq(data, a + 1, Min(b, Len(data)))

\* a from_register that leaves bits 4 and 5 in the value
FromRegisterNoMask(value) ==
    IF value = 0 THEN "OFF"
    ELSE IF value = 2 THEN "STANDBY"
    ELSE IF value = 65 THEN "ENABLED"
    ELSE "ValueError"

\* TMF882xMode.from_register: cls(value & 0xCF); a value that is no member
\* of the enum raises ValueError
FromRegister(value) ==
    LET m == BitAnd(value, ModeMask)
    IN  IF m = 0 THEN "OFF"
        ELSE IF m = 2 THEN "STANDBY"
        ELSE IF m = 65 THEN "ENABLED"
        ELSE "ValueError"

NoErr == [cls |-> "none", line |-> 0]
Raised(c, l) == [cls |-> c, line |-> l]
NoValue == 0 - 1
NoAcc == [kind |-> "none", reg |-> 0, val |-> 0]
NoMeasurement == [decoded |-> FALSE]
NoBlock == [register |-> 0, size |-> 0, pattern |-> "none"]

\* entries of the bus log
BusEntry(k, reg, val, n, data) ==
    [k |-> k, reg |-> reg, val |-> val, n |-> n, data |-> data]
WriteByte(reg, val) == BusEntry("write_byte", reg, val, 1, <<>>)
ReadByte(reg) == BusEntry("read_byte", reg, 0, 1, <<>>)
WriteWord(reg, val) == BusEntry("write_word", reg, val, 2, <<>>)
ReadWord(reg) == BusEntry("read_word", reg, 0, 2, <<>>)
ReadBlock(reg, n) == BusEntry("read_block", reg, 0, n, <<>>)
RawWrite(data) == BusEntry("raw_write", 0, 0, Len(data), data)
RawRead(n) == BusEntry("raw_read", 0, 0, n, <<>>)

\* the log keeps one entry for a run of identical polls of one register
Logged(l, e) == IF Len(l) > 0 /\ l[Len(l)] = e THEN l ELSE Append(l, e)
\* the same for a poll made of two transactions
LoggedPair(l, e, f) ==
    IF Len(l) > 1 /\ l[Len(l) - 1] = e /\ l[Len(l)] = f THEN l
    ELSE l \o <<e, f>>

(***************************************************************************)
(* Command engine: the test of the status byte.                            *)
(***************************************************************************)
\* a status test that takes 0x01 for a failure
CommandStatusClassStrict(s) ==
    IF s >= BusyThreshold THEN "busy" ELSE IF s > 0 THEN "failed" ELSE "ok"

\* `while status >= 0x10` and `if status > 0x01: raise`
CommandStatusClass(s) ==
    IF s >= BusyThreshold THEN "busy" ELSE IF s > 1 THEN "failed" ELSE "ok"

(***************************************************************************)
(* measure: the test of the interrupt register.                            *)
(***************************************************************************)
\* a test of bit 0 instead of bit 1
InterruptReadyBit0(v) == BitAnd(v, 1) # 0

\* `read_byte_data(0xE1) & 0b10` is not zero
InterruptReady(v) == BitAnd(v, InterruptReadyBit) # 0

(***************************************************************************)
(* Power state controller: the tests of enable.                            *)
(***************************************************************************)
\* a loop of one iteration less
EnableLoopDoneEarly(i) == i >= RetryCeiling - 1

\* `for _ in range(100)` has run out after i iterations
EnableLoopDone(i) == i >= RetryCeiling

\* `for _ in range(100)` of standby
StandbyLoopDone(i) == i >= RetryCeiling

\* a bootloader loop of one iteration less
BootloaderLoopDoneEarly(i) == i >= RetryCeiling - 1

\* `for i in range(100)` of _send_bootloader_command
BootloaderLoopDone(i) == i >= RetryCeiling

\* an enable that loads the firmware whatever auto_load_firmware says
EnableWantsFirmwareAlways(appId, auto) == appId = AppIdBootloader

\* `self.app_id == 0x80 and auto_load_firmware`
EnableWantsFirmware(appId, auto) == appId = AppIdBootloader /\ auto

(***************************************************************************)
(* Configuration transaction.                                              *)
(***************************************************************************)
\* a header test that forgets the last marker byte
ConfigHeaderOkNoByte3(data) ==
    ~(data[1] # CmdLoadConfigPage \/ data[3] # ConfigMarker2)

\* `data[0] != 0x16 or data[2] != 0xBC or data[3] != 0x00` raises
ConfigHeaderOk(data) ==
    ~(data[1] # CmdLoadConfigPage \/ data[3] # ConfigMarker2 \/ data[4] # ConfigMarker3)

\* the command on entry of the scope
ConfigEnterCommand == CmdLoadConfigPage

\* an exit that loads the page again instead of writing it
ConfigExitCommandLoad == CmdLoadConfigPage

\* the command on exit of the scope
ConfigExitCommand == CmdWriteConfigPage

\* the registers read and written as a word
WordRegisters == {RegMeasurementPeriod, RegKiloIterations}

\* the one bus transaction of the body of an accessor
AccessEntry(a) ==
    IF a.kind = "get"
    THEN IF a.reg \in WordRegisters THEN ReadWord(a.reg) ELSE ReadByte(a.reg)
    ELSE IF a.reg \in WordRegisters THEN WriteWord(a.reg, a.val)
         ELSE WriteByte(a.reg, a.val)

\* the source line of the body of an accessor
AccessorLine(a) ==
    IF a.kind = "get"
    THEN CASE a.reg = RegMeasurementPeriod -> 189
           [] a.reg = RegKiloIterations -> 199
           [] a.reg = RegConfidenceThreshold -> 209
           [] OTHER -> 219
    ELSE CASE a.reg = RegMeasurementPeriod -> 194
           [] a.reg = RegKiloIterations -> 204
           [] a.reg = RegConfidenceThreshold -> 214
           [] OTHER -> 224

(***************************************************************************)
(* Bootloader uploader: frames.                                            *)
(***************************************************************************)
\* the bytes of the firmware image: the blob is opaque to the driver
FirmwareImage(n) == [i \in 1 .. n |-> (37 * i + 11) % 256]

\* the images uploaded: one of each length, and the two bytes 0x01, 0x02
FirmwareImages == {FirmwareImage(n) : n \in FirmwareLens} \cup {<<1, 2>>}

RECURSIVE ChunksFrom(_, _)
\* _chunks: lst[i : i + chunk_size] while i < len(lst); i is 0-based
ChunksFrom(lst, i) ==
    IF i < Len(lst)
    THEN <<Slice(lst, i, i + ChunkSize)>> \o ChunksFrom(lst, i + ChunkSize)
    ELSE <<>>

\* chunks that start at the second byte
ChunksSkipFirst(lst) == ChunksFrom(lst, 1)

\* _chunks(list(driver))
Chunks(lst) == ChunksFrom(lst, 0)

\* a checksum that is the sum itself
ChecksumNoXor(message) == BitAnd(Sum(message), 255)

\* (sum(message) & 0xFF) ^ 0xFF
Checksum(message) == BitXor(BitAnd(Sum(message), 255), 255)

\* what _send_bootloader_command writes: [0x08] + message + [checksum]
BootloaderMessage(command, data) ==
    LET message == <<command, Len(data)>> \o data
    IN  <<RegCommand>> \o message \o <<Checksum(message)>>

\* the calls of _send_bootloader_command made by _load_firmware, in order
FirmwareCommands(image) ==
    <<[command |-> BlDownloadInit, data |-> <<BlDownloadInitArg>>],
      [command |-> BlSetAddr, data |-> <<0, 0>>]>>
    \o [k \in 1 .. Len(Chunks(image)) |->
            [command |-> BlWriteRam, data |-> Chunks(image)[k]]]
    \o <<[command |-> BlRamremapReset, data |-> <<>>]>>

(***************************************************************************)
(* Block read.                                                             *)
(***************************************************************************)
RECURSIVE BlockReadLogSameRegister(_, _)
\* a block read that never advances the register
BlockReadLogSameRegister(register, size) ==
    IF size > 0
    THEN <<ReadBlock(register, Min(size, BlockSize))>>
         \o BlockReadLogSameRegister(register, size - BlockSize)
    ELSE <<>>

RECURSIVE BlockReadLog(_, _)
\* _block_read: the reads it issues
BlockReadLog(register, size) ==
    IF size > 0
    THEN <<ReadBlock(register, Min(size, BlockSize))>>
         \o BlockReadLog(register + BlockSize, size - BlockSize)
    ELSE <<>>

(***************************************************************************)
(* Measurement codec.                                                      *)
(***************************************************************************)
\* byte k (0-based) of a buffer with the given contents; the top byte of
\* each 32-bit field stays below 128
PatternByte(p, k) ==
    IF p = "zero" THEN 0
    ELSE IF k < 24 THEN k
    ELSE LET z == (k - 24) \div 3
             r == (k - 24) % 3
         IN  IF p = "ramp"
             THEN (IF r = 0 THEN 100 + z ELSE IF r = 1 THEN z + 1 ELSE 0)
             ELSE (37 * k + 11) % 256

Buffer(p, n) == [i \in 1 .. n |-> PatternByte(p, i - 1)]

\* the byte the device holds at a register of the data window
MemByte(p, register) == PatternByte(p, register - RegData)

\* what read_i2c_block_data(address, register, n) returns
DeviceBlock(p, register, n) == [i \in 1 .. n |-> MemByte(p, register + i - 1)]

RECURSIVE BlockReadData(_, _, _)
\* _block_read: the list it returns
BlockReadData(p, register, size) ==
    IF size > 0
    THEN DeviceBlock(p, register, Min(size, BlockSize))
         \o BlockReadData(p, register + BlockSize, size - BlockSize)
    ELSE <<>>

\* data[k] of a Python list
Byte(data, k) == data[k + 1]

\* the positions from_bytes of __init__.py reads with data[k]
IndexedPositions1 == {4, 6} \cup {24 + 3 * i : i \in 0 .. 35}

\* the positions from_bytes of measurement.py reads with data[k]
IndexedPositions2 ==
    {4, 6} \cup {24 + 3 * i : i \in 0 .. 17} \cup {24 + 3 * (i + 18) : i \in 0 .. 17}

\* data[k] raises IndexError when k is not below len(data)
RaisesIndexError(data, positions) == \E k \in positions : k >= Len(data)

\* TMF882xMeasurement.from_bytes of __init__.py
FromBytes1(data, spadMap) ==
    [decoded |-> TRUE,
     result_number |-> Byte(data, 4),
     temperature |-> SignedByte(Slice(data, 5, 6)),
     n_valid_results |-> Byte(data, 6),
     ambient_light |-> LittleEndian(Slice(data, 8, 12)),
     photon_count |-> LittleEndian(Slice(data, 12, 16)),
     reference_count |-> LittleEndian(Slice(data, 16, 20)),
     system_tick |-> LittleEndian(Slice(data, 20, 24)),
     results |-> [j \in 1 .. 36 |->
        [confidence |-> Byte(data, 24 + 3 * (j - 1)),
         distance |-> LittleEndian(Slice(data, 25 + 3 * (j - 1), 27 + 3 * (j - 1)))]],
     spad_map |-> spadMap]

\* TMF882xMeasurement.from_bytes of measurement.py
FromBytes2(data, spadMap) ==
    [decoded |-> TRUE,
     result_number |-> Byte(data, 4),
     temperature |-> SignedByte(Slice(data, 5, 6)),
     n_valid_results |-> Byte(data, 6),
     ambient_light |-> LittleEndian(Slice(data, 8, 12)),
     photon_count |-> LittleEndian(Slice(data, 12, 16)),
     reference_count |-> LittleEndian(Slice(data, 16, 20)),
     system_tick |-> LittleEndian(Slice(data, 20, 24)),
     results |-> [j \in 1 .. 18 |->
        [confidence |-> Byte(data, 24 + 3 * (j - 1)),
         distance |-> LittleEndian(Slice(data, 25 + 3 * (j - 1), 27 + 3 * (j - 1))),
         secondary_confidence |-> Byte(data, 24 + 3 * (j - 1 + 18)),
         secondary_distance |->
            LittleEndian(Slice(data, 25 + 3 * (j - 1 + 18), 27 + 3 * (j - 1 + 18)))]],
     spad_map |-> spadMap]

(***************************************************************************)
(* Measurement codec: the spatial grid.                                    *)
(***************************************************************************)
\* SPAD_MAP_DIMENSIONS: (columns, rows) of the spatial maps that have a
\* grid, here one map of each shape; every other identifier has none
SpadMapDimensions ==
    [m \in {6, 7, 10} |->
        CASE m = 6 -> <<3, 3>>
          [] m = 7 -> <<4, 4>>
          [] OTHER -> <<3, 6>>]

\* Python's None as a cell of a grid: no distance is negative
None == 0 - 1

\* a 4x4 list that keeps the zone at index 8 of the window
ApplicableResultsKeeps8(results, offset, x, y) ==
    Slice(results, offset, offset + (x * y))

\* applicable_results of grid() of __init__.py
ApplicableResults1(results, offset, x, y) ==
    IF x = 4 /\ y = 4
    THEN Slice(results, offset, offset + 8) \o Slice(results, offset + 9, offset + 17)
    ELSE Slice(results, offset, offset + (x * y))

\* applicable_results of grid of measurement.py
ApplicableResults2(results, x, y) ==
    IF x = 4 /\ y = 4
    THEN Slice(results, 0, 8) \o Slice(results, 9, 17)
    ELSE Slice(results, 0, x * y)

\* an index that walks the list down the columns
GridIndexTransposed(row, column, x) == column + x * row

\* `applicable_results[row + x * column]` of __init__.py: row is the inner
\* loop variable, over range(x), column the outer one, over range(y)
GridIndex1(row, column, x) == row + x * column

\* an index with the loop variables in each other's place
GridIndexSwapped(column, row, x) == row + x * column

\* `applicable_results[column + x * row]` of measurement.py: column is the
\* inner loop variable, over range(x), row the outer one, over range(y)
GridIndex2(column, row, x) == column + x * row

\* `distance if distance > 0 else None`
DistanceOrNone(d) == IF d > 0 THEN d ELSE None

\* grid(secondary) of __init__.py, of a measurement whose map has a grid
Grid1(m, secondary) ==
    LET x == SpadMapDimensions[m.spad_map][1]
        y == SpadMapDimensions[m.spad_map][2]
        offset == IF secondary THEN 18 ELSE 0
        applicable_results == ApplicableResults1(m.results, offset, x, y)
    IN  [column \in 1 .. y |->
            [row \in 1 .. x |->
                DistanceOrNone(
                    applicable_results[GridIndex1(row - 1, column - 1, x) + 1].distance)]]

\* grid of measurement.py: the cells are the results themselves
Grid2(m) ==
    LET x == SpadMapDimensions[m.spad_map][1]
        y == SpadMapDimensions[m.spad_map][2]
        applicable_results == ApplicableResults2(m.results, x, y)
    IN  [row \in 1 .. y |->
            [column \in 1 .. x |->
                applicable_results[GridIndex2(column - 1, row - 1, x) + 1]]]

\* primary_grid of measurement.py
PrimaryGrid2(m) ==
    [row \in 1 .. Len(Grid2(m)) |->
        [column \in 1 .. Len(Grid2(m)[row]) |-> Grid2(m)[row][column].distance]]

\* secondary_grid of measurement.py
SecondaryGrid2(m) ==
    [row \in 1 .. Len(Grid2(m)) |->
        [column \in 1 .. Len(Grid2(m)[row]) |->
            Grid2(m)[row][column].secondary_distance]]

(***************************************************************************)
(* State.                                                                  *)
(***************************************************************************)
VARIABLES
    pc,          \* position of the driver
    stack,       \* positions to return to
    op,          \* the public call that is running
    log,         \* the bus transactions of this call
    err,         \* the exception that ended the call
    autoLoad,    \* enable's auto_load_firmware
    loopIter,    \* iterations done of the running for loop
    modeReads,   \* reads of the mode register by the running transition
    modeRaw,     \* the last raw value read from the mode register
    modesSeen,   \* the decoded modes read by the running transition
    appIdReads,  \* the values read from the identity register in this call
    errMode,     \* the mode the error message carries
    cmd,         \* the command of _send_command
    status,      \* the last status read
    statusPolls, \* status reads of the running while loop
    cmdOutcome,  \* how the last _send_command ended
    acc,         \* the running configuration accessor
    header,      \* the header read back after LOAD_CONFIG_PAGE
    bodyOutcome, \* how the body of the configuration scope ended
    result,      \* the value a getter returns
    image,       \* the firmware image
    frameIdx,    \* the bootloader command being sent
    blStatus,    \* the last bootloader status read
    irqPolls,    \* reads of the interrupt register by the running while loop
    buf,         \* the data buffer read or handed in
    variant,     \* the decoder: 1 (__init__.py) or 2 (measurement.py)
    decoded,     \* the measurement returned
    gridArg,     \* the grid asked for: "primary", "secondary" or "none"
    gridOut,     \* the grid returned
    blockArg,    \* register, size and device contents of _block_read
    fromReg,     \* what from_register returned, called by itself
    irqRaw,      \* the interrupt value that ended the second loop of measure
    blReads      \* reads of the bootloader status since the last frame

ctlVars == <<pc, stack, op, log, err>>
powerVars == <<autoLoad, loopIter, modeReads, modeRaw, modesSeen, appIdReads, errMode>>
cmdVars == <<cmd, status, statusPolls, cmdOutcome>>
cfgVars == <<acc, header, bodyOutcome, result>>
bootVars == <<image, frameIdx, blStatus>>
measVars == <<irqPolls, buf, variant, decoded>>
codecVars == <<gridArg, gridOut, blockArg, fromReg>>
pollVars == <<irqRaw, blReads>>
vars == <<ctlVars, powerVars, cmdVars, cfgVars, bootVars, measVars, codecVars, pollVars>>

Init ==
    /\ pc = "idle"
    /\ stack = <<>>
    /\ op = "none"
    /\ log = <<>>
    /\ err = NoErr
    /\ autoLoad = FALSE
    /\ loopIter = 0
    /\ modeReads = 0
    /\ modeRaw = NoValue
    /\ modesSeen = {}
    /\ appIdReads = <<>>
    /\ errMode = "none"
    /\ cmd = NoValue
    /\ status = NoValue
    /\ statusPolls = 0
    /\ cmdOutcome = "none"
    /\ acc = NoAcc
    /\ header = <<>>
    /\ bodyOutcome = "none"
    /\ result = NoValue
    /\ image = <<>>
    /\ frameIdx = 0
    /\ blStatus = NoValue
    /\ irqPolls = 0
    /\ buf = <<>>
    /\ variant = 0
    /\ decoded = NoMeasurement
    /\ gridArg = "none"
    /\ gridOut = <<>>
    /\ blockArg = NoBlock
    /\ fromReg = "none"
    /\ irqRaw = NoValue
    /\ blReads = 0

(***************************************************************************)
(* Steps shared by the operations.                                         *)
(***************************************************************************)
\* an exception nobody catches: the driver has no handler anywhere
Fail(c, l) ==
    /\ pc' = "failed"
    /\ stack' = <<>>
    /\ err' = Raised(c, l)

\* return to the caller
ReturnToCaller ==
    /\ pc' = Head(stack)
    /\ stack' = Tail(stack)
    /\ err' = err

\* the `mode` property: one read of 0xE0, decoded by from_register
ReadMode(r) ==
    /\ modeReads' = modeReads + 1
    /\ modeRaw' = r
    /\ modesSeen' = modesSeen \cup {FromRegister(r)}
    /\ log' = Logged(log, ReadByte(RegPower))

\* the read that settles a transition the call goes on after: the loop and
\* what it counted are over
TransitionSettled(r) ==
    /\ modeRaw' = r
    /\ modeReads' = 0
    /\ modesSeen' = {}
    /\ loopIter' = 0
    /\ log' = Logged(log, ReadByte(RegPower))

(***************************************************************************)
(* Power state controller: enable.                                         *)
(***************************************************************************)
\* enable(auto_load_firmware): the write of 0x21 to 0xE0
CallEnable ==
    /\ pc = "idle"
    /\ \E a \in BOOLEAN : autoLoad' = a
    /\ op' = "enable"
    /\ log' = <<WriteByte(RegPower, PowerEnableValue)>>
    /\ pc' = "enable_poll"
    /\ UNCHANGED <<stack, err, loopIter, modeReads, modeRaw, modesSeen, appIdReads,
                   errMode, cmdVars, cfgVars, bootVars, measVars, codecVars, pollVars>>

\* one iteration of the for loop of enable
EnablePoll ==
    /\ pc = "enable_poll"
    /\ \E r \in ModeRegValues :
        /\ ReadMode(r)
        /\ IF FromRegister(r) = "ValueError"
           THEN Fail("ValueError", 27) /\ loopIter' = loopIter
           ELSE IF FromRegister(r) = "ENABLED"
           THEN pc' = "enable_check" /\ loopIter' = loopIter /\ UNCHANGED <<stack, err>>
           ELSE /\ loopIter' = loopIter + 1
                /\ pc' = IF EnableLoopDone(loopIter + 1) THEN "enable_check"
                         ELSE "enable_poll"
                /\ UNCHANGED <<stack, err>>
    /\ UNCHANGED <<op, autoLoad, appIdReads, errMode, cmdVars, cfgVars, bootVars, measVars, codecVars, pollVars>>

\* `if self.mode != TMF882xMode.ENABLED` after the loop
EnableCheck ==
    /\ pc = "enable_check"
    /\ \E r \in ModeRegValues :
        /\ IF FromRegister(r) = "ValueError"
           THEN ReadMode(r) /\ Fail("ValueError", 27) /\ loopIter' = loopIter
           ELSE IF FromRegister(r) # "ENABLED"
           THEN /\ ReadMode(r)
                /\ pc' = "enable_raise"
                /\ UNCHANGED <<stack, err, loopIter>>
           ELSE /\ TransitionSettled(r)
                /\ pc' = "enable_appid"
                /\ UNCHANGED <<stack, err>>
    /\ UNCHANGED <<op, autoLoad, appIdReads, errMode, cmdVars, cfgVars, bootVars,
                   measVars, codecVars, pollVars>>

\* the raise of enable: the message reads the mode once more
EnableRaise ==
    /\ pc = "enable_raise"
    /\ \E r \in ModeRegValues :
        /\ ReadMode(r)
        /\ IF FromRegister(r) = "ValueError"
           THEN Fail("ValueError", 27) /\ errMode' = errMode
           ELSE Fail("TMF882xException", 119) /\ errMode' = FromRegister(r)
    /\ UNCHANGED <<op, autoLoad, loopIter, appIdReads, cmdVars, cfgVars, bootVars,
                   measVars, codecVars, pollVars>>

\* `if self.app_id == 0x80 and auto_load_firmware: self._load_firmware()`
EnableAppId ==
    /\ pc = "enable_appid"
    /\ \E a \in AppIdValues :
        /\ appIdReads' = Append(appIdReads, a)
        /\ log' = Append(log, ReadByte(RegAppId))
        /\ IF EnableWantsFirmware(a, autoLoad)
           THEN pc' = "lf_check" /\ stack' = <<"done">>
           ELSE pc' = "done" /\ stack' = stack
    /\ UNCHANGED <<op, err, autoLoad, loopIter, modeReads, modeRaw, modesSeen, errMode,
                   cmdVars, cfgVars, bootVars, measVars, codecVars, pollVars>>

(***************************************************************************)
(* Power state controller: standby.                                        *)
(***************************************************************************)
\* standby(): the write of 0x20 to 0xE0
CallStandby ==
    /\ pc = "idle"
    /\ op' = "standby"
    /\ log' = <<WriteByte(RegPower, PowerStandbyValue)>>
    /\ pc' = "standby_poll"
    /\ UNCHANGED <<stack, err, powerVars, cmdVars, cfgVars, bootVars, measVars, codecVars, pollVars>>

\* one iteration of the for loop of standby
StandbyPoll ==
    /\ pc = "standby_poll"
    /\ \E r \in ModeRegValues :
        /\ ReadMode(r)
        /\ IF FromRegister(r) = "ValueError"
           THEN Fail("ValueError", 27) /\ loopIter' = loopIter
           ELSE IF FromRegister(r) = "STANDBY"
           THEN pc' = "done" /\ loopIter' = loopIter /\ UNCHANGED <<stack, err>>
           ELSE /\ loopIter' = loopIter + 1
                /\ pc' = IF StandbyLoopDone(loopIter + 1) THEN "standby_raise"
                         ELSE "standby_poll"
                /\ UNCHANGED <<stack, err>>
    /\ UNCHANGED <<op, autoLoad, appIdReads, errMode, cmdVars, cfgVars, bootVars, measVars, codecVars, pollVars>>

\* the raise of standby: the message reads the mode once more
StandbyRaise ==
    /\ pc = "standby_raise"
    /\ \E r \in ModeRegValues :
        /\ ReadMode(r)
        /\ IF FromRegister(r) = "ValueError"
           THEN Fail("ValueError", 27) /\ errMode' = errMode
           ELSE Fail("RuntimeError", 131) /\ errMode' = FromRegister(r)
    /\ UNCHANGED <<op, autoLoad, loopIter, appIdReads, cmdVars, cfgVars, bootVars,
                   measVars, codecVars, pollVars>>

(***************************************************************************)
(* Command engine.                                                         *)
(***************************************************************************)
\* _send_command called by itself
CallSendCommand ==
    /\ pc = "idle"
    /\ \E c \in DirectCommands : cmd' = c
    /\ op' = "send_command"
    /\ pc' = "cmd_write"
    /\ stack' = <<"done">>
    /\ UNCHANGED <<log, err, powerVars, status, statusPolls, cmdOutcome, cfgVars,
                   bootVars, measVars, codecVars, pollVars>>

\* `self.bus.write_byte_data(self.address, 0x08, command)`
SendCommandWrite ==
    /\ pc = "cmd_write"
    /\ log' = Append(log, WriteByte(RegCommand, cmd))
    /\ status' = NoValue
    /\ statusPolls' = 0
    /\ cmdOutcome' = "pending"
    /\ pc' = "cmd_poll"
    /\ UNCHANGED <<stack, op, err, powerVars, cmd, cfgVars, bootVars, measVars, codecVars, pollVars>>

\* one read of the status by the while loop, and the test after the loop
SendCommandPoll ==
    /\ pc = "cmd_poll"
    /\ \E s \in StatusAnswers(op, statusPolls) :
        /\ CommandStatusClass(s) = "busy" => statusPolls < MaxStatusPolls
        /\ status' = s
        /\ log' = Logged(log, ReadByte(RegCommand))
        /\ CASE CommandStatusClass(s) = "busy" ->
                    /\ statusPolls' = statusPolls + 1
                    /\ cmdOutcome' = cmdOutcome
                    /\ UNCHANGED <<pc, stack, err>>
             [] CommandStatusClass(s) = "failed" ->
                    /\ statusPolls' = statusPolls + 1
                    /\ cmdOutcome' = "failed"
                    /\ Fail("RuntimeError", 163)
             [] OTHER ->
                    /\ statusPolls' = 0
                    /\ cmdOutcome' = "ok"
                    /\ ReturnToCaller
    /\ UNCHANGED <<op, powerVars, cmd, cfgVars, bootVars, measVars, codecVars, pollVars>>

(***************************************************************************)
(* Configuration transaction and the accessors.                            *)
(***************************************************************************)
\* a getter or a setter: `with self._configuration_mode():` sends
\* LOAD_CONFIG_PAGE first
CallAccessor ==
    /\ pc = "idle"
    /\ \E k \in {"get", "set"}, reg \in ConfigRegisters, v \in RegisterValues :
        /\ k = "get" => v = 0
        /\ acc' = [kind |-> k, reg |-> reg, val |-> v]
    /\ op' = "accessor"
    /\ cmd' = ConfigEnterCommand
    /\ pc' = "cmd_write"
    /\ stack' = <<"cfg_header", "done">>
    /\ UNCHANGED <<log, err, powerVars, status, statusPolls, cmdOutcome, header,
                   bodyOutcome, result, bootVars, measVars, codecVars, pollVars>>

\* the read of the header and its test
ConfigHeader ==
    /\ pc = "cfg_header"
    /\ \E h \in HeaderValues :
        /\ header' = h
        /\ log' = Append(log, ReadBlock(RegData, ConfigHeaderSize))
        /\ IF ConfigHeaderOk(h)
           THEN pc' = "cfg_body" /\ UNCHANGED <<stack, err>>
           ELSE Fail("RuntimeError", 237)
    /\ UNCHANGED <<op, powerVars, cmdVars, acc, bodyOutcome, result, bootVars, measVars, codecVars, pollVars>>

\* the body of the scope ends, and the scope sends WRITE_CONFIG_PAGE
ConfigBody ==
    /\ pc = "cfg_body"
    /\ log' = Append(log, AccessEntry(acc))
    /\ \E v \in RegisterValues :
        /\ acc.kind = "set" => v = acc.val
        /\ result' = IF acc.kind = "get" THEN v ELSE NoValue
    /\ bodyOutcome' = "ok"
    /\ cmd' = ConfigExitCommand
    /\ pc' = "cmd_write"
    /\ UNCHANGED <<stack, op, err, powerVars, status, statusPolls, cmdOutcome, acc,
                   header, bootVars, measVars, codecVars, pollVars>>

\* the bus transaction of the body raises: the generator is left at its
\* yield, which no try/finally guards
ConfigBodyRaises ==
    /\ pc = "cfg_body"
    /\ log' = Append(log, AccessEntry(acc))
    /\ bodyOutcome' = "raised"
    /\ Fail("OSError", AccessorLine(acc))
    /\ UNCHANGED <<op, powerVars, cmdVars, acc, header, result, bootVars, measVars, codecVars, pollVars>>

(***************************************************************************)
(* Bootloader uploader.                                                    *)
(***************************************************************************)
\* _load_firmware called by itself
CallLoadFirmware ==
    /\ pc = "idle"
    /\ op' = "load_firmware"
    /\ pc' = "lf_check"
    /\ stack' = <<"done">>
    /\ UNCHANGED <<log, err, powerVars, cmdVars, cfgVars, bootVars, measVars, codecVars, pollVars>>

\* `if self.app_id != 0x80: raise`
LoadFirmwareCheck ==
    /\ pc = "lf_check"
    /\ \E a \in AppIdValues :
        /\ appIdReads' = Append(appIdReads, a)
        /\ log' = Append(log, ReadByte(RegAppId))
        /\ IF a # AppIdBootloader
           THEN Fail("TMF882xException", 245) /\ UNCHANGED <<image, frameIdx>>
           ELSE /\ \E im \in FirmwareImages : image' = im
                /\ frameIdx' = 1
                /\ pc' = "bl_write"
                /\ UNCHANGED <<stack, err>>
    /\ UNCHANGED <<op, autoLoad, loopIter, modeReads, modeRaw, modesSeen, errMode,
                   cmdVars, cfgVars, blStatus, measVars, codecVars, pollVars>>

\* _send_bootloader_command: the raw write of the frame
BootloaderWrite ==
    /\ pc = "bl_write"
    /\ LET c == FirmwareCommands(image)[frameIdx]
       IN  log' = Append(log, RawWrite(BootloaderMessage(c.command, c.data)))
    /\ loopIter' = 0
    /\ blReads' = 0
    /\ pc' = "bl_poll"
    /\ UNCHANGED <<stack, op, err, autoLoad, modeReads, modeRaw, modesSeen, appIdReads,
                   errMode, cmdVars, cfgVars, bootVars, measVars, codecVars, irqRaw>>

\* one iteration of the for loop of _send_bootloader_command
BootloaderPoll ==
    /\ pc = "bl_poll"
    /\ \E s \in BlStatusValues :
        /\ blStatus' = s
        /\ log' = LoggedPair(log, RawWrite(<<RegCommand>>), RawRead(BlStatusSize))
        /\ IF s = 0
           THEN /\ loopIter' = loopIter
                /\ blReads' = 0
                /\ IF frameIdx = Len(FirmwareCommands(image))
                   THEN ReturnToCaller /\ frameIdx' = frameIdx
                   ELSE /\ frameIdx' = frameIdx + 1
                        /\ pc' = "bl_write"
                        /\ UNCHANGED <<stack, err>>
           ELSE /\ loopIter' = loopIter + 1
                /\ blReads' = blReads + 1
                /\ frameIdx' = frameIdx
                /\ pc' = IF BootloaderLoopDone(loopIter + 1) THEN "bl_raise"
                         ELSE "bl_poll"
                /\ UNCHANGED <<stack, err>>
    /\ UNCHANGED <<op, autoLoad, modeReads, modeRaw, modesSeen, appIdReads, errMode,
                   cmdVars, cfgVars, image, measVars, codecVars, irqRaw>>

\* the raise of _send_bootloader_command: the message reads the status
\* once more
BootloaderRaise ==
    /\ pc = "bl_raise"
    /\ \E s \in BlStatusValues : blStatus' = s
    /\ log' = LoggedPair(log, RawWrite(<<RegCommand>>), RawRead(BlStatusSize))
    /\ blReads' = blReads + 1
    /\ Fail("TMF882xException", 268)
    /\ UNCHANGED <<op, powerVars, cmdVars, cfgVars, image, frameIdx, measVars, codecVars,
                   irqRaw>>

(***************************************************************************)
(* measure.                                                                *)
(***************************************************************************)
\* measure(): the write of 0xFF to 0xE1
CallMeasure ==
    /\ pc = "idle"
    /\ op' = "measure"
    /\ log' = <<WriteByte(RegInterrupt, InterruptClear)>>
    /\ pc' = "m_write"
    /\ UNCHANGED <<stack, err, powerVars, cmdVars, cfgVars, bootVars, measVars, codecVars, pollVars>>

\* the write of MEASURE to 0x08
MeasureWrite ==
    /\ pc = "m_write"
    /\ log' = Append(log, WriteByte(RegCommand, CmdMeasure))
    /\ status' = NoValue
    /\ statusPolls' = 0
    /\ pc' = "m_poll"
    /\ UNCHANGED <<stack, op, err, powerVars, cmd, cmdOutcome, cfgVars, bootVars,
                   measVars, codecVars, pollVars>>

\* one read of the status by the while loop of measure, and the test after
\* the loop
MeasurePoll ==
    /\ pc = "m_poll"
    /\ \E s \in StatusValues :
        /\ CommandStatusClass(s) = "busy" => statusPolls < MaxStatusPolls
        /\ status' = s
        /\ log' = Logged(log, ReadByte(RegCommand))
        /\ CASE CommandStatusClass(s) = "busy" ->
                    statusPolls' = statusPolls + 1 /\ UNCHANGED <<pc, stack, err>>
             [] CommandStatusClass(s) = "failed" ->
                    statusPolls' = statusPolls + 1 /\ Fail("RuntimeError", 173)
             [] OTHER ->
                    statusPolls' = 0 /\ pc' = "m_irq" /\ UNCHANGED <<stack, err>>
    /\ UNCHANGED <<op, powerVars, cmd, cmdOutcome, cfgVars, bootVars, measVars, codecVars, pollVars>>

\* one read of the interrupt register by the second while loop
MeasureIrq ==
    /\ pc = "m_irq"
    /\ \E v \in IrqValues :
        /\ ~InterruptReady(v) => irqPolls < MaxStatusPolls
        /\ log' = Logged(log, ReadByte(RegInterrupt))
        /\ IF ~InterruptReady(v)
           THEN irqPolls' = irqPolls + 1 /\ pc' = "m_irq" /\ irqRaw' = irqRaw
           ELSE irqPolls' = 0 /\ pc' = "m_read" /\ irqRaw' = v
    /\ UNCHANGED <<stack, op, err, powerVars, cmdVars, cfgVars, bootVars, buf, variant,
                   decoded, codecVars, blReads>>

\* `_block_read(self.bus, self.address, 0x20, 132)`
MeasureRead ==
    /\ pc = "m_read"
    /\ \E p \in Patterns : buf' = BlockReadData(p, RegData, MeasurementSize)
    /\ log' = log \o BlockReadLog(RegData, MeasurementSize)
    /\ pc' = "m_stop"
    /\ UNCHANGED <<stack, op, err, powerVars, cmdVars, cfgVars, bootVars, irqPolls,
                   variant, decoded, codecVars, pollVars>>

\* the write of STOP, and the start of the spad_map getter whose value is
\* the argument of from_bytes
MeasureStop ==
    /\ pc = "m_stop"
    /\ log' = Append(log, WriteByte(RegCommand, CmdStop))
    /\ acc' = [kind |-> "get", reg |-> RegSpadMap, val |-> 0]
    /\ cmd' = ConfigEnterCommand
    /\ pc' = "cmd_write"
    /\ stack' = <<"cfg_header", "m_decode">>
    /\ irqRaw' = NoValue
    /\ UNCHANGED <<op, err, powerVars, status, statusPolls, cmdOutcome, header,
                   bodyOutcome, result, bootVars, measVars, codecVars, blReads>>

\* `TMF882xMeasurement.from_bytes(data, spad_map=...)` of __init__.py
MeasureDecode ==
    /\ pc = "m_decode"
    /\ variant' = 1
    /\ IF RaisesIndexError(buf, IndexedPositions1)
       THEN Fail("IndexError", 56) /\ decoded' = decoded
       ELSE /\ decoded' = FromBytes1(buf, result)
            /\ pc' = "done"
            /\ UNCHANGED <<stack, err>>
    /\ UNCHANGED <<op, log, powerVars, cmdVars, cfgVars, bootVars, irqPolls, buf,
                   codecVars, pollVars>>

(***************************************************************************)
(* Measurement codec called by itself.                                     *)
(***************************************************************************)
\* from_bytes of either file on a buffer of any length
CallFromBytes ==
    /\ pc = "idle"
    /\ op' = "from_bytes"
    /\ \E n \in 0 .. MaxBufLen, p \in Patterns, v \in {1, 2}, m \in RegisterValues :
        /\ buf' = Buffer(p, n)
        /\ variant' = v
        /\ result' = m
        /\ IF RaisesIndexError(buf', IF v = 1 THEN IndexedPositions1 ELSE IndexedPositions2)
           THEN Fail("IndexError", IF v = 1 THEN 56 ELSE 30) /\ decoded' = decoded
           ELSE /\ decoded' = IF v = 1 THEN FromBytes1(buf', m) ELSE FromBytes2(buf', m)
                /\ pc' = "done"
                /\ UNCHANGED <<stack, err>>
    /\ UNCHANGED <<log, powerVars, cmdVars, acc, header, bodyOutcome, bootVars, irqPolls,
                   codecVars, pollVars>>

\* _block_read called by itself: every read it issues and the list it
\* returns
CallBlockRead ==
    /\ pc = "idle"
    /\ op' = "block_read"
    /\ \E r \in BlockRegisters, n \in 1 .. MaxBlockLen, p \in Patterns :
        /\ blockArg' = [register |-> r, size |-> n, pattern |-> p]
        /\ log' = BlockReadLog(r, n)
        /\ buf' = BlockReadData(p, r, n)
    /\ pc' = "done"
    /\ UNCHANGED <<stack, err, powerVars, cmdVars, cfgVars, bootVars, irqPolls, variant,
                   decoded, gridArg, gridOut, fromReg, pollVars>>

\* TMF882xMode.from_register called by itself on any byte
CallFromRegister ==
    /\ pc = "idle"
    /\ op' = "from_register"
    /\ \E v \in 0 .. 255 :
        /\ modeRaw' = v
        /\ fromReg' = FromRegister(v)
        /\ IF FromRegister(v) = "ValueError"
           THEN Fail("ValueError", 27)
           ELSE pc' = "done" /\ UNCHANGED <<stack, err>>
    /\ UNCHANGED <<log, autoLoad, loopIter, modeReads, modesSeen, appIdReads, errMode,
                   cmdVars, cfgVars, bootVars, measVars, gridArg, gridOut, blockArg,
                   pollVars>>

\* a grid of the measurement just returned: grid(secondary) of __init__.py,
\* primary_grid or secondary_grid of measurement.py
CallGrid ==
    /\ pc = "done"
    /\ decoded # NoMeasurement
    /\ gridArg = "none"
    /\ \E g \in {"primary", "secondary"} :
        /\ gridArg' = g
        /\ IF decoded.spad_map \notin DOMAIN SpadMapDimensions
           THEN /\ Fail("NotImplementedError", IF variant = 1 THEN 78 ELSE 54)
                /\ gridOut' = gridOut
           ELSE /\ gridOut' = (IF variant = 1 THEN Grid1(decoded, g = "secondary")
                               ELSE IF g = "primary" THEN PrimaryGrid2(decoded)
                               ELSE SecondaryGrid2(decoded))
                /\ UNCHANGED <<pc, stack, err>>
    /\ UNCHANGED <<op, log, powerVars, cmdVars, cfgVars, bootVars, measVars, blockArg,
                   fromReg, pollVars>>

(***************************************************************************)
(* The call is over: the next one starts from a fresh record.              *)
(***************************************************************************)
Return ==
    /\ pc \in {"done", "failed"}
    /\ pc' = "idle"
    /\ stack' = <<>>
    /\ op' = "none"
    /\ log' = <<>>
    /\ err' = NoErr
    /\ autoLoad' = FALSE
    /\ loopIter' = 0
    /\ modeReads' = 0
    /\ modeRaw' = NoValue
    /\ modesSeen' = {}
    /\ appIdReads' = <<>>
    /\ errMode' = "none"
    /\ cmd' = NoValue
    /\ status' = NoValue
    /\ statusPolls' = 0
    /\ cmdOutcome' = "none"
    /\ acc' = NoAcc
    /\ header' = <<>>
    /\ bodyOutcome' = "none"
    /\ result' = NoValue
    /\ image' = <<>>
    /\ frameIdx' = 0
    /\ blStatus' = NoValue
    /\ irqPolls' = 0
    /\ buf' = <<>>
    /\ variant' = 0
    /\ decoded' = NoMeasurement
    /\ gridArg' = "none"
    /\ gridOut' = <<>>
    /\ blockArg' = NoBlock
    /\ fromReg' = "none"
    /\ irqRaw' = NoValue
    /\ blReads' = 0

Next ==
    \/ CallEnable
    \/ EnablePoll
    \/ EnableCheck
    \/ EnableRaise
    \/ EnableAppId
    \/ CallStandby
    \/ StandbyPoll
    \/ StandbyRaise
    \/ CallSendCommand
    \/ SendCommandWrite
    \/ SendCommandPoll
    \/ CallAccessor
    \/ ConfigHeader
    \/ ConfigBody
    \/ ConfigBodyRaises
    \/ CallLoadFirmware
    \/ LoadFirmwareCheck
    \/ BootloaderWrite
    \/ BootloaderPoll
    \/ BootloaderRaise
    \/ CallMeasure
    \/ MeasureWrite
    \/ MeasurePoll
    \/ MeasureIrq
    \/ MeasureRead
    \/ MeasureStop
    \/ MeasureDecode
    \/ CallFromBytes
    \/ CallBlockRead
    \/ CallFromRegister
    \/ CallGrid
    \/ Return

Spec == Init /\ [][Next]_vars

(***************************************************************************)
(* Properties.                                                             *)
(***************************************************************************)
Terminal == pc \in {"done", "failed"}

\* a bootloader frame was written: a raw write that is more than the
\* register address of a status poll
HasFrame(l) == \E i \in 1 .. Len(l) : l[i].k = "raw_write" /\ l[i].n > 1

\* WRITE_CONFIG_PAGE was written to the command register
HasCommit(l) == \E i \in 1 .. Len(l) : l[i] = WriteByte(8, 21)

\* the log from the first LOAD_CONFIG_PAGE on
ConfigLog(l) ==
    IF \E i \in 1 .. Len(l) : l[i] = WriteByte(8, 22)
    THEN LET first == CHOOSE i \in 1 .. Len(l) :
                        /\ l[i] = WriteByte(8, 22)
                        /\ \A j \in 1 .. (i - 1) : l[j] # WriteByte(8, 22)
         IN  SubSeq(l, first, Len(l))
    ELSE <<>>

\* C1 (as amended): enable() against a device whose mode register reads
\* Standby at every read never loops forever and uploads no firmware: it reads
\* the mode register exactly 102 times (the 100 polls of the loop, the check
\* after the loop and the read for the error message) and then fails with the
\* mode-transition error TMF882xException carrying Standby.
EnableStandbyForeverFails ==
    (op = "enable" /\ modesSeen = {"STANDBY"}) =>
        /\ modeReads <= 102
        /\ pc \in {"enable_poll", "enable_check", "enable_raise", "failed"}
        /\ pc = "enable_poll" => modeReads = loopIter /\ loopIter < 100
        /\ pc = "enable_check" => modeReads = 100
        /\ pc = "enable_raise" => modeReads = 101
        /\ pc = "failed" =>
            /\ modeReads = 102
            /\ err = Raised("TMF882xException", 119)
            /\ errMode = "STANDBY"
        /\ appIdReads = <<>>
        /\ ~HasFrame(log)

\* C1, witness: enable has failed after reading nothing but Standby
EnableStandbyForeverWitness ==
    /\ op = "enable"
    /\ modesSeen = {"STANDBY"}
    /\ pc = "failed"
    /\ modeReads = 102

\* C1, as stated: the failure comes after exactly 100 reads of the mode
\* register
EnableFailsAfterCeilingReads ==
    (op = "enable" /\ modesSeen = {"STANDBY"} /\ pc = "failed") =>
        /\ modeReads = 100
        /\ ~HasFrame(log)

\* C2, as stated: _send_command stops polling the status after a fixed
\* ceiling of reads, the retry ceiling of the other loops
SendCommandPollsBounded ==
    pc = "cmd_poll" => statusPolls <= RetryCeiling

\* C3: the status that ends the polling of _send_command decides the call:
\* 0x00 and 0x01 return, 0x02..0x0F raise the RuntimeError of line 163, and
\* a status of 0x10 or more never ends the call
CommandStatusDecides ==
    cmdOutcome # "none" =>
        /\ status \in {NoValue} \cup (0 .. 255)
        /\ status = NoValue => cmdOutcome = "pending" /\ pc = "cmd_poll"
        /\ status >= 16 => cmdOutcome = "pending" /\ pc = "cmd_poll"
        /\ status \in {0, 1} =>
            /\ cmdOutcome = "ok"
            /\ err # Raised("RuntimeError", 163)
            /\ pc # "cmd_poll"
        /\ status \in 2 .. 15 =>
            /\ cmdOutcome = "failed"
            /\ pc = "failed"
            /\ err = Raised("RuntimeError", 163)

\* C3, witness: a command called by itself has returned on status 0x01
CommandStatusWitness ==
    /\ op = "send_command"
    /\ pc = "done"
    /\ status = 1
    /\ cmdOutcome = "ok"

\* C4, as stated: a configuration scope whose body has ended, normally or
\* with an error, has written WRITE_CONFIG_PAGE by the end of the call
ConfigScopeAlwaysCommits ==
    (Terminal /\ bodyOutcome # "none") => HasCommit(log)

\* C5: a header with byte 0 # 0x16, byte 2 # 0xBC or byte 3 # 0x00 ends the
\* call with the RuntimeError of line 237 before any configuration register
\* is accessed and before WRITE_CONFIG_PAGE is written; any other header
\* does not raise it, whatever its byte 1
ConfigHeaderMismatchStops ==
    header # <<>> =>
        IF header[1] # 22 \/ header[3] # 188 \/ header[4] # 0
        THEN /\ pc = "failed"
             /\ err = Raised("RuntimeError", 237)
             /\ bodyOutcome = "none"
             /\ log[Len(log)] = ReadBlock(32, 4)
             /\ \A i \in 1 .. Len(log) :
                    /\ log[i].reg \notin {36, 38, 48, 52}
                    /\ log[i] # WriteByte(8, 21)
        ELSE err # Raised("RuntimeError", 237)

\* C5, witness: a header that differs in byte 3 alone, byte 1 set, has
\* ended the call
ConfigHeaderMismatchWitness ==
    /\ header = <<22, 7, 188, 1>>
    /\ pc = "failed"

\* C6: the bus transactions of an accessor are, in this order, the write
\* of LOAD_CONFIG_PAGE, the polls of the status, the header read, one access
\* of the accessor's register, the write of WRITE_CONFIG_PAGE and the polls
\* of the status; the register is accessed only after a verified header
AccessorBusOrder ==
    acc # NoAcc =>
        LET l == ConfigLog(log)
        IN  /\ Len(l) <= 6
            /\ op = "accessor" => l = log
            /\ Len(l) >= 1 => l[1] = WriteByte(8, 22)
            /\ Len(l) >= 2 => l[2] = ReadByte(8)
            /\ Len(l) >= 3 => l[3] = ReadBlock(32, 4)
            /\ Len(l) >= 4 =>
                /\ header[1] = 22 /\ header[3] = 188 /\ header[4] = 0
                /\ l[4].reg = acc.reg
                /\ acc.reg \in {36, 38, 48, 52}
                /\ l[4].k = (IF acc.kind = "get"
                             THEN (IF acc.reg \in {36, 38} THEN "read_word" ELSE "read_byte")
                             ELSE (IF acc.reg \in {36, 38} THEN "write_word" ELSE "write_byte"))
                /\ acc.kind = "set" => l[4].val = acc.val
            /\ Len(l) >= 5 => l[5] = WriteByte(8, 21)
            /\ Len(l) >= 6 => l[6] = ReadByte(8)
            /\ (pc = "done" /\ op = "accessor") => Len(l) = 6
            /\ (bodyOutcome = "ok" /\ pc # "cmd_write") => Len(l) >= 5

\* C6, witness: the setter of spad_map has returned
AccessorBusOrderWitness ==
    /\ op = "accessor"
    /\ pc = "done"
    /\ acc.kind = "set"
    /\ acc.reg = 52
    /\ Len(log) = 6

\* C7 (as amended): enable() writes bootloader frames exactly when the check
\* after the loop read Enabled, auto_load_firmware is set and the identity
\* register read 0x80 twice, in enable and again in _load_firmware; a
\* firmware load whose identity read is not 0x80 raises the
\* TMF882xException of line 245 before any frame is written
FirmwareLoadedExactlyWhen ==
    /\ op = "enable" =>
        /\ HasFrame(log) =>
            /\ autoLoad
            /\ appIdReads = <<128, 128>>
            /\ BitAnd(modeRaw, 207) = 65
        /\ (autoLoad /\ appIdReads = <<128, 128>>) => pc # "lf_check"
        /\ (autoLoad /\ appIdReads = <<128, 128>> /\ Terminal) => HasFrame(log)
        /\ err = Raised("TMF882xException", 119) => appIdReads = <<>>
    /\ op \in {"enable", "load_firmware"} =>
        /\ (appIdReads # <<>> /\ appIdReads[Len(appIdReads)] # 128 /\ pc # "done") =>
            /\ pc = "failed"
            /\ err = Raised("TMF882xException", 245)
        /\ (appIdReads # <<>> /\ appIdReads[Len(appIdReads)] # 128) => ~HasFrame(log)

\* C7, witness: enable has uploaded the firmware and returned
FirmwareLoadedWitness ==
    /\ op = "enable"
    /\ pc = "done"
    /\ autoLoad
    /\ HasFrame(log)

\* C7, as stated: a mode register read as Enabled, one identity read of
\* 0x80 and auto_load_firmware are enough for frames to be written
FirmwareLoadedOnFirstIdentityRead ==
    (op = "enable" /\ Terminal /\ autoLoad /\ appIdReads # <<>> /\ appIdReads[1] = 128) =>
        HasFrame(log)

\* C8, as stated: standby polls the mode register at most 100 times,
\* returns as soon as a poll reads Standby, and on exhaustion raises the
\* kind of error enable raises, TMF882xException, carrying the mode read
StandbySameContractAsEnable ==
    op = "standby" =>
        /\ loopIter <= RetryCeiling
        /\ pc = "done" => BitAnd(modeRaw, 207) = 2
        /\ (pc = "failed" /\ err.line = 131) =>
            /\ err.cls = "TMF882xException"
            /\ errMode \in {"OFF", "STANDBY", "ENABLED"}

\* C9, as stated: both polling loops of measure stop after a bounded number
\* of reads, the retry ceiling of the other loops
MeasurePollsBounded ==
    /\ pc = "m_poll" => statusPolls <= RetryCeiling
    /\ pc = "m_irq" => irqPolls <= RetryCeiling

\* C10, as stated: from_bytes of a buffer shorter than 132 bytes raises and
\* returns no measurement
ShortBufferNeverDecodes ==
    (op = "from_bytes" /\ Terminal /\ Len(buf) < 132) =>
        /\ pc = "failed"
        /\ decoded = NoMeasurement

\* C11, as stated: in every grid of a decoded measurement, grid(secondary)
\* of __init__.py and primary_grid and secondary_grid of measurement.py, no
\* cell is the number 0, and every cell of a grid of the all-zero buffer of
\* 132 bytes is absent
GridZeroIsAbsent ==
    (gridArg # "none" /\ pc = "done") =>
        /\ \A r \in 1 .. Len(gridOut) : \A c \in 1 .. Len(gridOut[r]) :
                gridOut[r][c] # 0
        /\ buf = Buffer("zero", 132) =>
                \A r \in 1 .. Len(gridOut) : \A c \in 1 .. Len(gridOut[r]) :
                    gridOut[r][c] = None

\* a grid has been returned
GridReturned == gridArg # "none" /\ pc = "done"

\* the buffer of 132 bytes in which zone z has the distance z + 1
RampBuffer == Buffer("ramp", MeasurementSize)

\* the distance the measurement holds for zone w of the 18-wide window of
\* the grid asked for
WindowDistance(w) ==
    IF variant = 1
    THEN decoded.results[(IF gridArg = "secondary" THEN 18 ELSE 0) + w + 1].distance
    ELSE IF gridArg = "secondary" THEN decoded.results[w + 1].secondary_distance
         ELSE decoded.results[w + 1].distance

\* what a grid shows for a distance: the first variant shows None for 0
CellOf(d) == IF variant = 1 THEN DistanceOrNone(d) ELSE d

\* the zones of the window a 4x4 grid is made of, in order
Zones4x4 == <<0, 1, 2, 3, 4, 5, 6, 7, 9, 10, 11, 12, 13, 14, 15, 16>>

\* C12: the grid of a (4,4) map has 16 cells, the zones 0..7 and 9..16 of
\* the window once each; the window starts at zone 0 for the primary grid
\* and at zone 18 for the secondary one, and zones 8 and 17 of the window
\* are in no cell
Grid4x4SkipsZones8And17 ==
    (GridReturned /\ SpadMapDimensions[decoded.spad_map] = <<4, 4>>) =>
        /\ Len(gridOut) = 4
        /\ \A j \in 1 .. 4 :
            /\ Len(gridOut[j]) = 4
            /\ \A i \in 1 .. 4 :
                gridOut[j][i] = CellOf(WindowDistance(Zones4x4[(i - 1) + 4 * (j - 1) + 1]))
        /\ (buf = RampBuffer /\ gridArg = "primary") =>
            gridOut = <<<<1, 2, 3, 4>>, <<5, 6, 7, 8>>,
                        <<10, 11, 12, 13>>, <<14, 15, 16, 17>>>>
        /\ (buf = RampBuffer /\ gridArg = "secondary") =>
            gridOut = <<<<19, 20, 21, 22>>, <<23, 24, 25, 26>>,
                        <<28, 29, 30, 31>>, <<32, 33, 34, 35>>>>

\* C12, witness: the secondary grid of __init__.py of a 4x4 map has been
\* returned for the buffer in which zone z has the distance z + 1
Grid4x4Witness ==
    /\ GridReturned
    /\ variant = 1
    /\ gridArg = "secondary"
    /\ buf = RampBuffer
    /\ SpadMapDimensions[decoded.spad_map] = <<4, 4>>
    /\ gridOut[3][1] = 28

\* C13: grid() of __init__.py for a map of (columns, rows) that is not 4x4
\* returns rows lists of columns cells; the cell at outer index j and inner
\* index i holds zone i + columns*j of the window, so that the buffer in
\* which zone z has the distance z + 1 gives the first columns*rows
\* distances once each, [[1,2,3],[4,5,6],[7,8,9]] for a 3x3 map
GridRowsOfColumns ==
    (GridReturned /\ variant = 1 /\ SpadMapDimensions[decoded.spad_map] # <<4, 4>>) =>
        LET columns == SpadMapDimensions[decoded.spad_map][1]
            rows == SpadMapDimensions[decoded.spad_map][2]
            base == IF gridArg = "secondary" THEN 18 ELSE 0
        IN  /\ Len(gridOut) = rows
            /\ \A j \in 0 .. (rows - 1) :
                /\ Len(gridOut[j + 1]) = columns
                /\ \A i \in 0 .. (columns - 1) :
                    /\ gridOut[j + 1][i + 1] = DistanceOrNone(WindowDistance(i + columns * j))
                    /\ buf = RampBuffer => gridOut[j + 1][i + 1] = base + i + columns * j + 1
            /\ buf = RampBuffer =>
                {gridOut[j][i] : j \in 1 .. rows, i \in 1 .. columns}
                    = (base + 1) .. (base + columns * rows)
            /\ (buf = RampBuffer /\ gridArg = "primary" /\ columns = 3 /\ rows = 3) =>
                gridOut = <<<<1, 2, 3>>, <<4, 5, 6>>, <<7, 8, 9>>>>

\* C13, witness: grid() of a 3x6 map has been returned for the buffer in
\* which zone z has the distance z + 1
GridRowsOfColumnsWitness ==
    /\ GridReturned
    /\ variant = 1
    /\ gridArg = "primary"
    /\ buf = RampBuffer
    /\ SpadMapDimensions[decoded.spad_map] = <<3, 6>>
    /\ gridOut[6] = <<16, 17, 18>>

\* the primary or secondary grid the other decoder returns for the buffer
\* and the map of the measurement
OtherVariantGrid ==
    IF variant = 1
    THEN IF gridArg = "primary" THEN PrimaryGrid2(FromBytes2(buf, decoded.spad_map))
         ELSE SecondaryGrid2(FromBytes2(buf, decoded.spad_map))
    ELSE Grid1(FromBytes1(buf, decoded.spad_map), gridArg = "secondary")

\* C14 (as amended): for the same buffer and the same map the grids of the
\* two decoders have the same shape and hold the same zone in every cell:
\* the cell at outer index j and inner index i is zone i + columns*j of the
\* applicable list in both; the cells differ only where the distance is 0,
\* which __init__.py shows as None and measurement.py as 0
GridOrdersAgree ==
    GridReturned =>
        /\ Len(gridOut) = Len(OtherVariantGrid)
        /\ \A j \in 1 .. Len(gridOut) :
            /\ Len(gridOut[j]) = Len(OtherVariantGrid[j])
            /\ \A i \in 1 .. Len(gridOut[j]) :
                DistanceOrNone(gridOut[j][i]) = DistanceOrNone(OtherVariantGrid[j][i])
        /\ buf = RampBuffer => gridOut = OtherVariantGrid

\* C14, witness: primary_grid of measurement.py of a 3x6 map has been
\* returned for the buffer in which zone z has the distance z + 1
GridOrdersAgreeWitness ==
    /\ GridReturned
    /\ variant = 2
    /\ gridArg = "primary"
    /\ buf = RampBuffer
    /\ SpadMapDimensions[decoded.spad_map] = <<3, 6>>
    /\ gridOut[2] = <<4, 5, 6>>

\* C14, as stated: for the same buffer and map the primary grids of the two
\* decoders hold a different zone in at least one cell
GridOrdersDiverge ==
    (GridReturned /\ gridArg = "primary" /\ buf = RampBuffer) =>
        \E j \in 1 .. Len(gridOut) : \E i \in 1 .. Len(gridOut[j]) :
            gridOut[j][i] # OtherVariantGrid[j][i]

\* the value of a byte with bits 4 and 5 cleared
WithoutBits4And5(v) == (v % 16) + 64 * (v \div 64)

\* C15: from_register of a byte v returns Off, Standby or Enabled exactly
\* when v & 0xCF is 0x00, 0x02 or 0x41, whatever bits 4 and 5 of v are, and
\* raises for every other v
FromRegisterIgnoresBits4And5 ==
    op = "from_register" =>
        /\ modeRaw \in 0 .. 255
        /\ fromReg = "OFF" <=> WithoutBits4And5(modeRaw) = 0
        /\ fromReg = "STANDBY" <=> WithoutBits4And5(modeRaw) = 2
        /\ fromReg = "ENABLED" <=> WithoutBits4And5(modeRaw) = 65
        /\ fromReg = "OFF" <=> modeRaw \in {0, 16, 32, 48}
        /\ fromReg = "STANDBY" <=> modeRaw \in {2, 18, 34, 50}
        /\ fromReg = "ENABLED" <=> modeRaw \in {65, 81, 97, 113}
        /\ fromReg \in {"OFF", "STANDBY", "ENABLED", "ValueError"}
        /\ fromReg = "ValueError" <=> pc = "failed"
        /\ pc = "failed" => err = Raised("ValueError", 27)
        /\ fromReg # "ValueError" => pc = "done" /\ err = NoErr

\* C15, witness: from_register has returned Enabled for 0x71, a value with
\* bits 4 and 5 set
FromRegisterWitness ==
    /\ op = "from_register"
    /\ pc = "done"
    /\ modeRaw = 113
    /\ fromReg = "ENABLED"

\* the bootloader frames of a log, in the order they were written
IsFrame(e) == e.k = "raw_write" /\ e.n > 1
Frames(l) == SelectSeq(l, IsFrame)

\* the fields of a frame [0x08, opcode, length, payload..., checksum]
FrameOpcode(f) == f.data[2]
FrameLength(f) == f.data[3]
FramePayload(f) == SubSeq(f.data, 4, Len(f.data) - 1)
FrameChecksum(f) == f.data[Len(f.data)]

RECURSIVE PayloadsFrom(_, _)
\* the payloads of the frames from the k-th on, one after the other
PayloadsFrom(fr, k) ==
    IF k > Len(fr) THEN <<>> ELSE FramePayload(fr[k]) \o PayloadsFrom(fr, k + 1)

\* an upload has returned
UploadDone == pc = "done" /\ HasFrame(log)

\* C16: the frames of an upload that returned are DOWNLOAD_INIT [0x29],
\* SET_ADDR [0x00, 0x00], ceil(N/80) WRITE_RAM frames whose payloads are
\* not empty, 80 bytes long but for the last and together the image, and
\* RAMREMAP_RESET with no payload; every frame but the first is written
\* when the last status read was 0x00, and between two frames of the log
\* there is the poll of the status
UploadFramesInOrder ==
    /\ (pc = "bl_write" /\ frameIdx > 1) => blStatus = 0
    /\ UploadDone =>
        LET fr == Frames(log)
            chunks == (Len(image) + 79) \div 80
        IN  /\ blStatus = 0
            /\ Len(fr) = chunks + 3
            /\ FrameOpcode(fr[1]) = 20 /\ FramePayload(fr[1]) = <<41>>
            /\ FrameOpcode(fr[2]) = 67 /\ FramePayload(fr[2]) = <<0, 0>>
            /\ \A k \in 1 .. chunks :
                /\ FrameOpcode(fr[2 + k]) = 65
                /\ Len(FramePayload(fr[2 + k])) \in 1 .. 80
                /\ k < chunks => Len(FramePayload(fr[2 + k])) = 80
            /\ PayloadsFrom(SubSeq(fr, 3, chunks + 2), 1) = image
            /\ FrameOpcode(fr[chunks + 3]) = 17 /\ FramePayload(fr[chunks + 3]) = <<>>
            /\ \A i \in 1 .. Len(log) :
                IsFrame(log[i]) =>
                    /\ i + 2 <= Len(log)
                    /\ log[i + 1] = RawWrite(<<8>>)
                    /\ log[i + 2] = RawRead(3)
                    /\ i + 3 <= Len(log) => IsFrame(log[i + 3])

\* C16, witness: an image of two chunks and one byte has been uploaded by
\* _load_firmware in six frames
UploadFramesWitness ==
    /\ op = "load_firmware"
    /\ UploadDone
    /\ Len(image) = 161
    /\ Len(Frames(log)) = 6
    /\ Len(FramePayload(Frames(log)[5])) = 1

\* a frame of the upload has failed
FrameFailed == err = Raised("TMF882xException", 268)

\* the frames an upload of the image writes when none fails
UploadFrameCount == ((Len(image) + 79) \div 80) + 3

\* what both statements of C17 say of a failed frame: the upload is over,
\* the failed frame is the last entry of the log but for the polls, it was
\* written once, and no later frame, RAMREMAP_RESET least of all, was written
FailedFrameEndsUpload ==
    FrameFailed =>
        /\ pc = "failed"
        /\ frameIdx \in 1 .. UploadFrameCount
        /\ Len(Frames(log)) = frameIdx
        /\ \A j \in 1 .. (frameIdx - 1) : Frames(log)[j] # Frames(log)[frameIdx]
        /\ Len(log) >= 3
        /\ log[Len(log) - 2] = Frames(log)[frameIdx]
        /\ log[Len(log) - 1] = RawWrite(<<8>>)
        /\ log[Len(log)] = RawRead(3)
        /\ frameIdx < UploadFrameCount =>
            \A j \in 1 .. Len(Frames(log)) : FrameOpcode(Frames(log)[j]) # 17

\* C17 (as amended): after a frame is written the loop polls its status at
\* most 100 times; when none of the 100 polls read 0x00 the status is read
\* once more, for the error message, and the frame fails with the bootloader
\* error whatever this 101st read returns; the upload is over: the failed
\* frame is not written again and no later frame is written
BootloaderFrameFailsAfterLoop ==
    op \in {"load_firmware", "enable"} =>
        /\ blReads <= 101
        /\ pc = "bl_poll" => blReads = loopIter /\ loopIter < 100
        /\ pc = "bl_raise" => blReads = 100 /\ loopIter = 100 /\ blStatus # 0
        /\ FrameFailed => blReads = 101 /\ loopIter = 100
        /\ (pc = "failed" /\ blReads > 0) => FrameFailed
        /\ FailedFrameEndsUpload

\* C17, witness: the first WRITE_RAM frame of an image of three chunks has
\* failed, the read for the error message returning 0x00
BootloaderFrameFailsWitness ==
    /\ op = "load_firmware"
    /\ FrameFailed
    /\ Len(image) = 161
    /\ frameIdx = 3
    /\ blReads = 101
    /\ blStatus = 0

\* C17, as stated: the status of a frame is read at most 100 times, and a
\* frame none of whose polls read 0x00 fails and ends the upload
BootloaderPollsAtMostCeiling ==
    op \in {"load_firmware", "enable"} =>
        /\ blReads <= RetryCeiling
        /\ FailedFrameEndsUpload

\* C18: every bootloader frame is one raw write [0x08, opcode, length,
\* payload..., checksum] whose length byte is the number of payload bytes
\* and whose checksum is ((opcode + length + sum of the payload) mod 256)
\* XOR 0xFF, so that opcode, length, payload and checksum add up to 0xFF
\* modulo 256; the checksum of opcode 0x41 with payload [0x01, 0x02] is 0xB9
FrameChecksumComplements ==
    \A i \in 1 .. Len(log) :
        IsFrame(log[i]) =>
            LET f == log[i]
                total == FrameOpcode(f) + FrameLength(f) + Sum(FramePayload(f))
            IN  /\ f.k = "raw_write"
                /\ f.n = Len(f.data)
                /\ Len(f.data) >= 4
                /\ f.data[1] = 8
                /\ FrameLength(f) = Len(f.data) - 4
                /\ FrameLength(f) = Len(FramePayload(f))
                /\ FrameChecksum(f) \in 0 .. 255
                /\ FrameChecksum(f) = 255 - (total % 256)
                /\ (total + FrameChecksum(f)) % 256 = 255
                /\ (FrameOpcode(f) = 65 /\ FramePayload(f) = <<1, 2>>) =>
                        FrameChecksum(f) = 185

\* C18, witness: the WRITE_RAM frame of the image [0x01, 0x02] has been
\* written
FrameChecksumWitness ==
    /\ image = <<1, 2>>
    /\ Len(Frames(log)) >= 3
    /\ Frames(log)[3].data = <<8, 65, 2, 1, 2, 185>>

\* the five reads of the 132 bytes of a measurement
MeasurementReads ==
    <<ReadBlock(32, 32), ReadBlock(64, 32), ReadBlock(96, 32), ReadBlock(128, 32),
      ReadBlock(160, 4)>>

\* C19: a block read of n >= 1 bytes at register r issues ceil(n/32) reads,
\* the k-th (from 0) at register r + 32*k for min(32, n - 32*k) bytes, and
\* returns the n bytes of the chunks in the order of the reads; the 132
\* bytes of a measurement are read at 0x20, 0x40, 0x60, 0x80 by 32 bytes and
\* at 0xA0 by 4 bytes
BlockReadChunksOf32 ==
    /\ (op = "block_read" /\ pc = "done") =>
        LET r == blockArg.register
            n == blockArg.size
            reads == (n + 31) \div 32
        IN  /\ n >= 1
            /\ Len(log) = reads
            /\ \A k \in 0 .. (reads - 1) :
                /\ log[k + 1].k = "read_block"
                /\ log[k + 1].reg = r + 32 * k
                /\ log[k + 1].n = Min(32, n - 32 * k)
                /\ \A i \in 1 .. log[k + 1].n :
                    buf[32 * k + i] = MemByte(blockArg.pattern, log[k + 1].reg + i - 1)
            /\ Len(buf) = n
            /\ (r = 32 /\ n = 132) => log = MeasurementReads
    /\ (op = "measure" /\ pc = "m_stop") =>
        /\ Len(log) >= 5
        /\ SubSeq(log, Len(log) - 4, Len(log)) = MeasurementReads
        /\ Len(buf) = 132

\* C19, witness: a block read of 132 bytes at 0x20 has returned
BlockReadWitness ==
    /\ op = "block_read"
    /\ pc = "done"
    /\ blockArg.register = 32
    /\ blockArg.size = 132
    /\ blockArg.pattern = "mixed"
    /\ Len(log) = 5

\* the bus transactions of a measure() that returns, a run of polls of one
\* register counted once
MeasureLog ==
    <<WriteByte(225, 255), WriteByte(8, 16), ReadByte(8), ReadByte(225)>>
    \o MeasurementReads
    \o <<WriteByte(8, 255),
         WriteByte(8, 22), ReadByte(8), ReadBlock(32, 4), ReadByte(52),
         WriteByte(8, 21), ReadByte(8)>>

\* C20: in measure() the interrupt clear is written before MEASURE; the
\* data window is read only after a status read of 0x00 or 0x01 and after a
\* read of the interrupt register with bit 1 set; STOP is written after the
\* data read and before the configuration transaction that reads the
\* spatial-map identifier; and when MEASURE fails with a status in
\* 0x02..0x0F neither the data window is read nor STOP written
MeasureBusOrder ==
    op = "measure" =>
        /\ Len(log) <= Len(MeasureLog)
        /\ log = SubSeq(MeasureLog, 1, Len(log))
        /\ pc \in {"m_write", "m_poll"} => Len(log) <= 3
        /\ pc = "m_irq" => Len(log) <= 4
        /\ pc \in {"m_irq", "m_read", "m_stop"} => status \in {0, 1}
        /\ pc = "m_read" => Len(log) = 4
        /\ pc \in {"m_read", "m_stop"} => irqRaw \in 0 .. 255 /\ (irqRaw \div 2) % 2 = 1
        /\ pc = "m_stop" => Len(log) = 9
        /\ Len(log) >= 5 => pc \notin {"m_write", "m_poll", "m_irq", "m_read"}
        /\ Len(log) >= 11 => pc \notin {"m_write", "m_poll", "m_irq", "m_read", "m_stop"}
        /\ (pc = "m_poll" /\ status # NoValue) => status >= 16
        /\ err = Raised("RuntimeError", 173) <=> (pc = "failed" /\ Len(log) = 3)
        /\ err = Raised("RuntimeError", 173) =>
            /\ status \in 2 .. 15
            /\ log = <<WriteByte(225, 255), WriteByte(8, 16), ReadByte(8)>>
        /\ pc = "done" => log = MeasureLog

\* C20, witness: measure() has returned a measurement
MeasureBusOrderWitness ==
    /\ op = "measure"
    /\ pc = "done"
    /\ decoded # NoMeasurement
    /\ Len(log) = 16

====
